---- MODULE Spec2Model ----
(***************************************************************************)
(* Model of m3u8_downloader: the pipeline m3u8_to_mp4 (main.py 236-265),   *)
(* the scheduler download_segments_in_parallel (main.py 111-170) and the   *)
(* fetch worker download_segment (main.py 53-109), run twice in a row on   *)
(* the same manifest, with the run directory (segment files and            *)
(* segment_info.json) as persistent state between the two invocations.     *)
(*                                                                         *)
(* Indices are the 0-based Python indices.  A URL is a natural number k    *)
(* standing for the k-th resource of the server.  A file is a record       *)
(* [exists, data] with data a sequence of bytes.                           *)
(***************************************************************************)
EXTENDS Integers, Sequences, FiniteSets, TLC

\* ---------------------------------------------------------------- bounds
\* number of data lines of the manifest (segment_count)
NumSegments == 3
\* largest --threads value tried
MaxThreads == 2
\* length in bytes of every segment body on the server
BodyLen == 2
\* largest number of lines of a manifest text handed to extract_segments
MaxLines == 4

VARIABLES
    \* inputs of the invocation and the environment
    net,                 \* net[u]: how the server answers a GET of URL u
    num_threads,         \* --threads
    keep_segments,       \* args.keep_segments handed to m3u8_to_mp4
    argv_keep,           \* whether --keep_segments is on the command line
    m3u8_file,           \* the manifest file named on the command line
    \* extract_segments on its own
    m3u8_text,           \* the manifest's directory and its lines
    locators,            \* what extract_segments returned
    \* the run directory
    files,               \* files[i]: segment_<i>.ts
    ledger_file,         \* segment_info.json
    \* the main thread
    pc, run, segments, segment_info, downloaded_segments, next_i,
    progress, result, merged,
    \* the executor
    queue, running, future,
    \* bookkeeping of what happened in the current run
    submits, requests, transferred, aborted, skipped, tampered,
    prev_merged, prev_complete

vars == <<net, num_threads, keep_segments, argv_keep, m3u8_file, m3u8_text,
          locators, files, ledger_file, pc, run,
          segments, segment_info, downloaded_segments, next_i, progress,
          result, merged, queue, running, future, submits, requests,
          transferred, aborted, skipped, tampered, prev_merged,
          prev_complete>>

parsing == <<m3u8_text, locators>>
options == <<net, num_threads, keep_segments, argv_keep, parsing>>
config == <<options, m3u8_file>>
disk == <<files, ledger_file>>
history == <<submits, requests, transferred, aborted, skipped>>

\* ------------------------------------------------------------- data model
Urls == 1..NumSegments
Indices == 0..(NumSegments - 1)
NetKinds == {"len", "nolen", "fail"}

NoFile == [exists |-> FALSE, data |-> <<>>]
File(d) == [exists |-> TRUE, data |-> d]

\* the body the server sends for URL u: BodyLen bytes, different for every
\* URL and every position
Body(u) == [k \in 1..BodyLen |-> (u - 1) * BodyLen + k]

\* the byte a modification from outside writes; no body contains it
ForeignByte == NumSegments * BodyLen + 1
HashBase == NumSegments * BodyLen + 3

\* str(i): the key of index i in segment_info
Str(i) == ToString(i)

EmptyLedger == [k \in {} |-> [url |-> 0, md5 |-> 0]]
NoLedger == [exists |-> FALSE, corrupt |-> FALSE, doc |-> EmptyLedger]

RECURSIVE MD5From(_, _)
MD5From(h, s) ==
    IF s = <<>> THEN h
    ELSE MD5From(h * HashBase + Head(s) + 1, Tail(s))

\* calculate_file_md5: a digest of the file's bytes, deterministic and
\* without collisions on the contents of the model
calculate_file_md5(f) == MD5From(1, f.data)

\* extract_segments of the manifest handed to the pipeline: one URL per data
\* line, in line order
Manifest == [k \in 1..NumSegments |-> k]

total_segments == Len(segments)
\* the indices enumerate(segments) yields in the current run
RunIndices == 0..(total_segments - 1)
\* segments[i] of the 0-based Python list
SegmentUrl(i) == segments[i + 1]

\* the manifest file: missing, or listing the URLs of its data lines
NoManifest == [exists |-> FALSE, urls |-> <<>>]
ManifestFile(urls) == [exists |-> TRUE, urls |-> urls]

\* a manifest that is given the same run directory as Manifest (the same
\* identifier, or the fallback "default") but lists other URLs at its
\* indices and is one segment shorter
OtherManifest == [k \in 1..(NumSegments - 1) |-> NumSegments + 1 - k]

\* cli.py 14: action="store_true", so the value is False without the option
store_true(given) == given

\* ------------------------------------------------------ extract_segments
\* A line is a sequence of characters, a character a string of length one.
Whitespace == {" ", "\n"}

\* str.lstrip and str.rstrip for whitespace
RECURSIVE LStrip(_)
LStrip(line) ==
    IF line # <<>> /\ Head(line) \in Whitespace THEN LStrip(Tail(line))
    ELSE line

RECURSIVE RStrip(_)
RStrip(line) ==
    IF line # <<>> /\ line[Len(line)] \in Whitespace
    THEN RStrip(SubSeq(line, 1, Len(line) - 1))
    ELSE line

\* main.py 30: line.strip()
Strip(line) == RStrip(LStrip(line))

\* str.startswith
StartsWith(line, prefix) ==
    /\ Len(line) >= Len(prefix)
    /\ SubSeq(line, 1, Len(prefix)) = prefix

\* a parser that skips blank lines only
IsSegmentLine_CommentsToo(line) == line # <<>>

\* main.py 31: `if line and not line.startswith('#')`, on the stripped line
IsSegmentLine(line) == line # <<>> /\ ~StartsWith(line, <<"#">>)

\* os.path.join(base_url, line) of main.py 33
PathJoin(base, line) ==
    IF StartsWith(line, <<"/">>) THEN line
    ELSE IF base = <<>> \/ base[Len(base)] = "/" THEN base \o line
    ELSE base \o <<"/">> \o line

\* main.py 32-33: a line that starts with http is kept, any other is joined
\* to the manifest's directory
Resolve(base, line) ==
    IF StartsWith(line, <<"h", "t", "t", "p">>) THEN line
    ELSE PathJoin(base, line)

\* main.py 26-35: the loop over the lines of the file
RECURSIVE ExtractFrom(_, _, _)
ExtractFrom(acc, base, lines) ==
    IF lines = <<>> THEN acc
    ELSE LET line == Strip(Head(lines))
         IN ExtractFrom(IF IsSegmentLine(line)
                        THEN Append(acc, Resolve(base, line))
                        ELSE acc,
                        base, Tail(lines))

extract_segments(text) == ExtractFrom(<<>>, text.dir, text.lines)

NotParsed == [done |-> FALSE, value |-> <<>>]
NoText == [dir |-> <<>>, lines |-> <<>>]

NoFuture == [st |-> "none", ok |-> FALSE, md5 |-> 0]
NoTamper == [kind |-> "none", index |-> 0]

\* ------------------------------------------------------------------ Init
Init ==
    /\ net \in [Urls -> NetKinds]
    /\ num_threads \in 1..MaxThreads
    /\ argv_keep \in BOOLEAN
    /\ keep_segments = store_true(argv_keep)
    /\ m3u8_file \in {NoManifest, ManifestFile(Manifest)}
    /\ m3u8_text = NoText
    /\ locators = NotParsed
    /\ files = [i \in Indices |-> NoFile]
    /\ ledger_file = NoLedger
    /\ pc = "start"
    /\ run = "first"
    /\ segments = <<>>
    /\ segment_info = EmptyLedger
    /\ downloaded_segments = <<>>
    /\ next_i = 0
    /\ progress = 0
    /\ result = <<>>
    /\ merged = <<>>
    /\ queue = <<>>
    /\ running = {}
    /\ future = [i \in Indices |-> NoFuture]
    /\ submits = [i \in Indices |-> 0]
    /\ requests = [i \in Indices |-> 0]
    /\ transferred = {}
    /\ aborted = {}
    /\ skipped = {}
    /\ tampered = NoTamper
    /\ prev_merged = <<>>
    /\ prev_complete = FALSE

\* ------------------------------------------------- outcomes of a run
Completed(i) == i \in skipped \/ (future[i].st \in {"done", "collected"} /\ future[i].ok)
Failed(i) == future[i].st \in {"done", "collected"} /\ ~future[i].ok
CompletedSet == {i \in Indices : Completed(i)}

\* ------------------------------------------------ m3u8_to_mp4, first part
\* an extract_segments that swallows the error, as extract_id_from_m3u8 does
ManifestOpens_Swallowed == TRUE

\* main.py 28: open(m3u8_filename, 'r') succeeds
ManifestOpens == m3u8_file.exists

\* main.py 240-254 and download_segments_in_parallel 123-136: parse the
\* manifest, create or reuse the run directory, load the ledger.  The second
\* invocation starts from the run directory the first one left.
StartRun ==
    /\ \/ pc = "start"
       \/ pc = "done" /\ run = "first"
    /\ ManifestOpens
    /\ ~(ledger_file.exists /\ ledger_file.corrupt)
    /\ run' = IF pc = "start" THEN run ELSE "second"
    /\ prev_merged' = IF pc = "start" THEN prev_merged ELSE merged
    /\ prev_complete' = IF pc = "start" THEN prev_complete
                        ELSE CompletedSet = Indices
    /\ segments' = m3u8_file.urls
    /\ segment_info' = IF ledger_file.exists THEN ledger_file.doc ELSE EmptyLedger
    /\ downloaded_segments' = <<>>
    /\ next_i' = 0
    /\ progress' = 0
    /\ result' = <<>>
    /\ merged' = <<>>
    /\ queue' = <<>>
    /\ running' = {}
    /\ future' = [i \in Indices |-> NoFuture]
    /\ submits' = [i \in Indices |-> 0]
    /\ requests' = [i \in Indices |-> 0]
    /\ transferred' = {}
    /\ aborted' = {}
    /\ skipped' = {}
    /\ pc' = "enum"
    /\ UNCHANGED <<config, disk, tampered>>

\* main.py 250: extract_segments opens a manifest file that is not there;
\* the FileNotFoundError leaves m3u8_to_mp4 before the run directory is
\* created and before the try block of line 256
ManifestMissing ==
    /\ pc = "start"
    /\ ~ManifestOpens
    /\ pc' = "aborted"
    /\ UNCHANGED <<config, disk, run, segments, segment_info,
                   downloaded_segments, next_i, progress, result, merged,
                   queue, running, future, history, tampered, prev_merged,
                   prev_complete>>

\* main.py 130-132: segment_info.json exists but json.load raises; the
\* exception leaves download_segments_in_parallel and reaches the finally
\* block of m3u8_to_mp4
LedgerUnreadable ==
    /\ \/ pc = "start"
       \/ pc = "done" /\ run = "first"
    /\ ManifestOpens
    /\ ledger_file.exists /\ ledger_file.corrupt
    /\ run' = IF pc = "start" THEN run ELSE "second"
    /\ prev_merged' = IF pc = "start" THEN prev_merged ELSE merged
    /\ prev_complete' = IF pc = "start" THEN prev_complete
                        ELSE CompletedSet = Indices
    /\ segments' = m3u8_file.urls
    /\ segment_info' = EmptyLedger
    /\ downloaded_segments' = <<>>
    /\ next_i' = 0
    /\ progress' = 0
    /\ result' = <<>>
    /\ merged' = <<>>
    /\ queue' = <<>>
    /\ running' = {}
    /\ future' = [i \in Indices |-> NoFuture]
    /\ submits' = [i \in Indices |-> 0]
    /\ requests' = [i \in Indices |-> 0]
    /\ transferred' = {}
    /\ aborted' = {}
    /\ skipped' = {}
    /\ pc' = "unwind"
    /\ UNCHANGED <<config, disk, tampered>>

\* ------------------------------------------- download_segments_in_parallel
\* the skip test without the comparison of the hashes
AlreadyDone_NoHash(i) ==
    /\ Str(i) \in DOMAIN segment_info
    /\ files[i].exists

\* main.py 143-144: the test that lets the loop skip index i
AlreadyDone(i) ==
    /\ Str(i) \in DOMAIN segment_info
    /\ files[i].exists
    /\ segment_info[Str(i)].md5 = calculate_file_md5(files[i])

\* the loop without its `continue`: a skipped index is submitted as well
Submitted_NoContinue(done) == TRUE

\* main.py 148: the `continue` that keeps a skipped index from executor.submit
Submitted(done) == ~done

\* main.py 141-149: one iteration of the enumerate loop
Enumerate ==
    /\ pc = "enum"
    /\ next_i < total_segments
    /\ LET i == next_i
           done == AlreadyDone(i)
           sub == Submitted(done)
       IN /\ downloaded_segments' =
                 IF done THEN Append(downloaded_segments, i)
                 ELSE downloaded_segments
          /\ skipped' = IF done THEN skipped \cup {i} ELSE skipped
          /\ progress' = IF done THEN progress + 1 ELSE progress
          /\ queue' = IF sub THEN Append(queue, i) ELSE queue
          /\ future' = IF sub THEN [future EXCEPT ![i].st = "queued"] ELSE future
          /\ submits' = IF sub THEN [submits EXCEPT ![i] = @ + 1] ELSE submits
          /\ next_i' = i + 1
          /\ pc' = IF i + 1 = total_segments THEN "collect" ELSE "enum"
    /\ UNCHANGED <<config, disk, run, segments, segment_info, result, merged,
                   running, requests, transferred, aborted, tampered,
                   prev_merged, prev_complete>>

\* ---------------------------------------------------- ThreadPoolExecutor
\* a pool that starts every queued call at once
CanStart_Unbounded == TRUE

\* a pool that keeps one worker back
CanStart_OneLess == Cardinality(running) < num_threads - 1

\* main.py 139: max_workers=num_threads; a queued call starts only when one
\* of the num_threads workers is free
CanStart == Cardinality(running) < num_threads

\* ------------------------------------------------------- download_segment
\* main.py 69: int(response.headers.get('content-length', 0))
total_size(u) == IF net[u] = "nolen" THEN 0 ELSE Len(Body(u))

\* an except branch that leaves the file where it is
RemovePartial_Keep(f) == f

\* main.py 107-108: the except branch removes the segment file
RemovePartial(f) == NoFile

\* main.py 82: open(output_filename, mode), mode 'ab' for an existing file
\* and 'wb' otherwise
Opened(f) == IF f.exists THEN f ELSE File(<<>>)

\* main.py 94-95: every chunk of the response body is written at the end of
\* the open file; the GET of line 67 carries no Range header, so the body is
\* the whole resource
Streamed(f, u) == File(f.data \o Body(u))

\* main.py 67-68 raising RequestException (connection error, timeout,
\* non-success status), handled by 105-109
RequestFails(i) ==
    /\ net[SegmentUrl(i)] = "fail"
    /\ files' = [files EXCEPT ![i] = RemovePartial(@)]
    /\ future' = [future EXCEPT ![i] = [st |-> "done", ok |-> FALSE, md5 |-> 0]]
    /\ UNCHANGED running

\* main.py 75-80: the existing file is at least total_size long
RequestAlreadyDownloaded(i) ==
    /\ files[i].exists
    /\ Len(files[i].data) >= total_size(SegmentUrl(i))
    /\ future' = [future EXCEPT ![i] =
                    [st |-> "done", ok |-> TRUE, md5 |-> calculate_file_md5(files[i])]]
    /\ UNCHANGED <<files, running>>

\* main.py 72-82: the file is opened and the worker goes on to stream
RequestOpens(i) ==
    /\ ~(files[i].exists /\ Len(files[i].data) >= total_size(SegmentUrl(i)))
    /\ files' = [files EXCEPT ![i] = Opened(@)]
    /\ future' = [future EXCEPT ![i].st = "running"]
    /\ running' = running \cup {i}

\* A free worker takes the oldest queued call and runs download_segment up
\* to the open of the target file (main.py 66-82)
Request ==
    /\ queue # <<>>
    /\ CanStart
    /\ LET i == Head(queue)
       IN /\ queue' = Tail(queue)
          /\ requests' = [requests EXCEPT ![i] = @ + 1]
          /\ \/ RequestFails(i)
             \/ RequestAlreadyDownloaded(i)
             \/ RequestOpens(i)
    /\ UNCHANGED <<config, ledger_file, pc, run, segments, segment_info,
                   downloaded_segments, next_i, progress, result, merged,
                   submits, transferred, aborted, skipped, tampered,
                   prev_merged, prev_complete>>

\* main.py 94-104: the body arrives whole, the file's hash is returned
StreamSucceeds(i) ==
    /\ net[SegmentUrl(i)] # "fail"
    /\ LET f == Streamed(files[i], SegmentUrl(i))
       IN /\ files' = [files EXCEPT ![i] = f]
          /\ future' = [future EXCEPT ![i] =
                          [st |-> "done", ok |-> TRUE, md5 |-> calculate_file_md5(f)]]
    /\ transferred' = transferred \cup {i}
    /\ UNCHANGED aborted

\* main.py 94 raising RequestException while the body is read (connection
\* reset, read timeout), handled by 105-109
StreamFails(i) ==
    /\ net[SegmentUrl(i)] = "fail"
    /\ files' = [files EXCEPT ![i] = RemovePartial(@)]
    /\ future' = [future EXCEPT ![i] = [st |-> "done", ok |-> FALSE, md5 |-> 0]]
    /\ aborted' = aborted \cup {i}
    /\ UNCHANGED transferred

\* The rest of download_segment for a call that opened its file
Stream ==
    /\ \E i \in running :
          /\ running' = running \ {i}
          /\ \/ StreamSucceeds(i)
             \/ StreamFails(i)
    /\ UNCHANGED <<config, ledger_file, pc, run, segments, segment_info,
                   downloaded_segments, next_i, progress, result, merged,
                   queue, submits, requests, skipped, tampered, prev_merged,
                   prev_complete>>

\* a completion loop that records every finished future as downloaded
HasMd5_Always(fut) == TRUE

\* a completion loop that drops every result
HasMd5_Never(fut) == FALSE

\* main.py 155: `if md5:`; download_segment returns None for a failed fetch
HasMd5(fut) == fut.ok

\* main.py 151-164: the as_completed loop takes one finished future
Collect ==
    /\ pc = "collect"
    /\ \E i \in Indices :
          /\ future[i].st = "done"
          /\ IF HasMd5(future[i])
             THEN /\ downloaded_segments' = Append(downloaded_segments, i)
                  /\ segment_info' =
                        (Str(i) :> [url |-> SegmentUrl(i), md5 |-> future[i].md5])
                        @@ segment_info
             ELSE UNCHANGED <<downloaded_segments, segment_info>>
          /\ future' = [future EXCEPT ![i].st = "collected"]
    /\ progress' = progress + 1
    /\ UNCHANGED <<config, disk, pc, run, segments, next_i, result, merged,
                   queue, running, history, tampered, prev_merged,
                   prev_complete>>

\* sorted(downloaded_segments, key=lambda x: x[0]), a stable sort
RECURSIVE Insert(_, _)
Insert(x, s) ==
    IF s = <<>> THEN <<x>>
    ELSE IF x < Head(s) THEN <<x>> \o s
    ELSE <<Head(s)>> \o Insert(x, Tail(s))

RECURSIVE InsertAll(_, _)
InsertAll(acc, s) ==
    IF s = <<>> THEN acc ELSE InsertAll(Insert(Head(s), acc), Tail(s))

\* the list returned in completion order
Sorted_CompletionOrder(s) == s

Sorted(s) == InsertAll(<<>>, s)

\* a document that holds the records of this run's fetches only
LedgerDocument_ThisRunOnly ==
    [k \in {Str(i) : i \in {j \in Indices : future[j].st = "collected" /\ future[j].ok}}
        |-> segment_info[k]]

\* main.py 167: json.dump(segment_info, f)
LedgerDocument == segment_info

\* main.py 166-170: every future was yielded; the ledger is written and the
\* sorted list is returned
Persist ==
    /\ pc = "collect"
    /\ \A i \in Indices : future[i].st \in {"none", "collected"}
    /\ ledger_file' = [exists |-> TRUE, corrupt |-> FALSE, doc |-> LedgerDocument]
    /\ result' = Sorted(downloaded_segments)
    /\ pc' = "merge"
    /\ UNCHANGED <<config, files, run, segments, segment_info,
                   downloaded_segments, next_i, progress, merged, queue,
                   running, future, history, tampered, prev_merged,
                   prev_complete>>

\* main.py 258 and 181-184: merge_segments_to_mp4 lists the files of the
\* returned segments in the order of the list
Merge ==
    /\ pc = "merge"
    /\ merged' = result
    /\ pc' = "cleanup"
    /\ UNCHANGED <<config, disk, run, segments, segment_info,
                   downloaded_segments, next_i, progress, result, queue,
                   running, future, history, tampered, prev_merged,
                   prev_complete>>

\* main.py 259-263: the finally block of m3u8_to_mp4, reached after the
\* merge step or with an exception on its way out
Cleanup ==
    /\ pc \in {"cleanup", "unwind"}
    /\ IF keep_segments
       THEN UNCHANGED disk
       ELSE /\ files' = [i \in Indices |-> NoFile]
            /\ ledger_file' = NoLedger
    /\ pc' = IF pc = "unwind" THEN "aborted" ELSE "done"
    /\ UNCHANGED <<config, run, segments, segment_info, downloaded_segments,
                   next_i, progress, result, merged, queue, running, future,
                   history, tampered, prev_merged, prev_complete>>

\* ------------------------------------------------------- the environment
\* Between the two invocations one segment file may be truncated, modified
\* in place or deleted, segment_info.json may be deleted or damaged, or the
\* second invocation may be given another manifest for the same run directory.
Truncate(i) ==
    /\ files[i].exists
    /\ \E p \in 1..(Len(files[i].data) - 1) :
          files' = [files EXCEPT ![i] = File(SubSeq(@.data, 1, p))]
    /\ tampered' = [kind |-> "truncate", index |-> i]
    /\ UNCHANGED <<ledger_file, m3u8_file>>

Modify(i) ==
    /\ files[i].exists
    /\ files[i].data # <<>>
    /\ files' = [files EXCEPT ![i] = File([@.data EXCEPT ![1] = ForeignByte])]
    /\ tampered' = [kind |-> "modify", index |-> i]
    /\ UNCHANGED <<ledger_file, m3u8_file>>

Delete(i) ==
    /\ files[i].exists
    /\ files' = [files EXCEPT ![i] = NoFile]
    /\ tampered' = [kind |-> "delete", index |-> i]
    /\ UNCHANGED <<ledger_file, m3u8_file>>

DeleteLedger ==
    /\ ledger_file.exists
    /\ ledger_file' = NoLedger
    /\ tampered' = [kind |-> "ledger", index |-> 0]
    /\ UNCHANGED <<files, m3u8_file>>

\* segment_info.json is damaged so that it is no JSON document any more
CorruptLedger ==
    /\ ledger_file.exists
    /\ ledger_file' = [ledger_file EXCEPT !.corrupt = TRUE]
    /\ tampered' = [kind |-> "corrupt", index |-> 0]
    /\ UNCHANGED <<files, m3u8_file>>

\* the second invocation is given the other manifest
SwitchManifest ==
    /\ m3u8_file' = ManifestFile(OtherManifest)
    /\ tampered' = [kind |-> "manifest", index |-> 0]
    /\ UNCHANGED <<files, ledger_file>>

Tamper ==
    /\ pc = "done"
    /\ run = "first"
    /\ tampered = NoTamper
    /\ \/ \E i \in Indices : Truncate(i)
       \/ \E i \in Indices : Modify(i)
       \/ \E i \in Indices : Delete(i)
       \/ DeleteLedger
       \/ CorruptLedger
       \/ SwitchManifest
    /\ UNCHANGED <<options, pc, run, segments, segment_info,
                   downloaded_segments, next_i, progress, result, merged,
                   queue, running, future, history, prev_merged,
                   prev_complete>>

\* ------------------------------------------------------- specification
Next ==
    \/ StartRun
    \/ ManifestMissing
    \/ LedgerUnreadable
    \/ Enumerate
    \/ Request
    \/ Stream
    \/ Collect
    \/ Persist
    \/ Merge
    \/ Cleanup
    \/ Tamper

Spec == Init /\ [][Next]_vars

\* The scheduler with its scheduling assumptions: the main thread goes on
\* whenever it can, the pool starts a queued call whenever a worker is free,
\* and every fetch that was started ends (the request has a timeout,
\* main.py 67).
FairSpec ==
    /\ Spec
    /\ WF_vars(Enumerate)
    /\ WF_vars(Request)
    /\ WF_vars(Stream)
    /\ WF_vars(Collect)
    /\ WF_vars(Persist)

\* ------------------------------------------- extract_segments on its own
\* the lines tried: empty, whitespace only, a comment, an indented comment,
\* a relative path, a relative path with spaces around it, an absolute URL
\* and a rooted path, each with its line end
ManifestLines ==
    { <<"\n">>, <<" ", "\n">>, <<"#", "E", "\n">>, <<" ", "#", "E", "\n">>,
      <<"s", "\n">>, <<" ", "s", " ", "\n">>,
      <<"h", "t", "t", "p", ":", "s", "\n">>, <<"/", "s", "\n">> }

\* os.path.dirname(m3u8_filename): the manifest in the working directory or
\* in a directory d
ManifestDirs == {<<>>, <<"d">>}

ManifestTexts ==
    UNION {[1..n -> ManifestLines] : n \in 0..MaxLines}

ParseInit ==
    /\ m3u8_text \in [dir : ManifestDirs, lines : ManifestTexts]
    /\ locators = NotParsed
    /\ net = [u \in Urls |-> "len"]
    /\ num_threads = 1
    /\ argv_keep = FALSE
    /\ keep_segments = store_true(argv_keep)
    /\ m3u8_file = NoManifest
    /\ files = [i \in Indices |-> NoFile]
    /\ ledger_file = NoLedger
    /\ pc = "start"
    /\ run = "first"
    /\ segments = <<>>
    /\ segment_info = EmptyLedger
    /\ downloaded_segments = <<>>
    /\ next_i = 0
    /\ progress = 0
    /\ result = <<>>
    /\ merged = <<>>
    /\ queue = <<>>
    /\ running = {}
    /\ future = [i \in Indices |-> NoFuture]
    /\ submits = [i \in Indices |-> 0]
    /\ requests = [i \in Indices |-> 0]
    /\ transferred = {}
    /\ aborted = {}
    /\ skipped = {}
    /\ tampered = NoTamper
    /\ prev_merged = <<>>
    /\ prev_complete = FALSE

\* one call of extract_segments (main.py 16-35)
Parse ==
    /\ ~locators.done
    /\ locators' = [done |-> TRUE, value |-> extract_segments(m3u8_text)]
    /\ UNCHANGED <<net, num_threads, keep_segments, argv_keep, m3u8_file,
                   m3u8_text, disk, pc, run, segments, segment_info,
                   downloaded_segments, next_i, progress, result, merged,
                   queue, running, future, history, tampered, prev_merged,
                   prev_complete>>

ParseNext == Parse

SpecParse == ParseInit /\ [][ParseNext]_vars

\* ------------------------------------------------------------- properties
Returned == pc \in {"merge", "cleanup", "done"}
Range(s) == {s[k] : k \in DOMAIN s}
Occurrences(s, x) == Cardinality({k \in DOMAIN s : s[k] = x})
FetchSucceeded(i) == future[i].st = "collected" /\ future[i].ok

\* C1: the list download_segments_in_parallel returns, and the list the merge
\* step receives, is strictly ascending by index (so without duplicates) and
\* holds exactly the indices that were skipped as already done or whose fetch
\* succeeded in this run, whatever the pool size and the completion order.
C1_ReturnedSortedExact ==
    Returned =>
        /\ \A k \in 1..(Len(result) - 1) : result[k] < result[k + 1]
        /\ Range(result) = skipped \cup {i \in Indices : FetchSucceeded(i)}
        /\ pc \in {"cleanup", "done"} => merged = result

\* a run whose completion order differs from the index order, with both a
\* skipped and a fetched segment in the returned list
C1_Witness ==
    /\ pc = "merge"
    /\ downloaded_segments # result
    /\ skipped # {}
    /\ \E i \in Indices : FetchSucceeded(i) /\ i \in transferred

\* C2: within one run every enumerated index is either skipped or submitted
\* to the pool exactly once, never both; no index is requested twice, queued
\* twice or running twice (no automatic retry), and when the scheduler has
\* returned every index has exactly one outcome, Completed or Failed.
C2_OneDispatchOneOutcome ==
    \A i \in Indices :
        /\ submits[i] <= 1
        /\ requests[i] <= submits[i]
        /\ ~(i \in skipped /\ submits[i] > 0)
        /\ Occurrences(queue, i) + (IF i \in running THEN 1 ELSE 0) <= 1
        /\ Occurrences(downloaded_segments, i) <= 1
        /\ (pc = "enum" /\ i < next_i) => (i \in skipped) # (submits[i] = 1)
        /\ (Returned /\ i \in RunIndices) =>
              /\ (i \in skipped) # (submits[i] = 1)
              /\ requests[i] = submits[i]
              /\ Completed(i) # Failed(i)
        /\ i \notin RunIndices => (submits[i] = 0 /\ i \notin skipped)

\* a finished run with a skipped, a fetched and a failed segment
C2_Witness ==
    /\ pc = "done"
    /\ skipped # {}
    /\ \E i \in Indices : Failed(i)
    /\ \E i \in Indices : FetchSucceeded(i)

\* C3: the number of fetches that have started and not yet finished never
\* exceeds the pool size num_threads; a queued call waits while all workers
\* are busy.
C3_BoundedInFlight ==
    /\ Cardinality(running) <= num_threads
    /\ \A i \in running : future[i].st = "running" /\ Occurrences(queue, i) = 0

\* more pending segments than workers: all workers busy and a call waiting
C3_Witness ==
    /\ Cardinality(running) = num_threads
    /\ queue # <<>>
    /\ Cardinality({i \in Indices : submits[i] = 1}) > num_threads

\* the condition of the Segment Store on the run directory as the scheduler
\* found it: ledger entry, segment file, equal hashes
VerifiedOnDisk(i) ==
    /\ ledger_file.exists
    /\ Str(i) \in DOMAIN ledger_file.doc
    /\ files[i].exists
    /\ ledger_file.doc[Str(i)].md5 = MD5From(1, files[i].data)

\* C4: the iteration of the scheduler's loop for index i emits i as Completed
\* without dispatching a fetch if and only if the ledger on disk has an entry
\* for i, the segment file exists and its recomputed hash equals the stored
\* hash; in every other case it dispatches exactly one fetch for i.
C4_SkipIffVerified ==
    [][(pc = "enum" /\ next_i' = next_i + 1) =>
          LET i == next_i
          IN /\ (i \in skipped') <=> VerifiedOnDisk(i)
             /\ (submits'[i] = 1 /\ future'[i].st = "queued") <=> ~VerifiedOnDisk(i)
             /\ VerifiedOnDisk(i) =>
                   /\ submits'[i] = 0
                   /\ downloaded_segments' = Append(downloaded_segments, i)
                   /\ queue' = queue]_vars

\* a second run that skips a verified segment and dispatches a fetch for a
\* segment whose file no longer matches its ledger hash
C4_Witness ==
    /\ run = "second"
    /\ pc = "collect"
    /\ skipped # {}
    /\ tampered.kind \in {"truncate", "modify"}
    /\ submits[tampered.index] = 1
    /\ Str(tampered.index) \in DOMAIN ledger_file.doc

\* ------------------------------------------------- two runs in a row
SecondRunOver == run = "second" /\ pc = "done"

\* C5: when the pipeline is run twice on the same manifest, the server
\* answering the same way and nobody touching the run directory in between,
\* the second run hands the merge step the same list as the first and sends
\* no request at all.  (Stated for a first run that completed every segment,
\* the case the claim's "every segment is pre-verified as done" is about.)
C5_Idempotent ==
    (SecondRunOver /\ tampered = NoTamper /\ prev_complete) =>
        /\ merged = prev_merged
        /\ \A i \in Indices : requests[i] = 0 /\ i \in skipped

\* C6: when the file of one completed segment was truncated or modified
\* between the runs, the next run transfers the body of exactly that segment
\* and the file it reports as Completed holds the server's content.
C6_CorruptionRedownload ==
    (run = "second" /\ Returned /\ prev_complete
       /\ tampered.kind \in {"truncate", "modify"}) =>
        LET t == tampered.index
        IN /\ transferred = {t}
           /\ Completed(t)
           /\ files[t] = File(Body(SegmentUrl(t)))

\* C7: a fetch that starts on an existing file of length p smaller than the
\* reported total size T continues from offset p, so that on success the file
\* has length T and equals the server's content.
C7_ResumeFromOffset ==
    (run = "second" /\ tampered.kind = "truncate"
       /\ tampered.index \in transferred) =>
        LET t == tampered.index
        IN /\ net[SegmentUrl(t)] = "len"
           /\ Len(files[t].data) = total_size(SegmentUrl(t))
           /\ files[t] = File(Body(SegmentUrl(t)))

\* C8: when the server reports no content-length, a fetch that has ended
\* without error has transferred the body and written it over any file that
\* was there.
C8_NoLengthRefetch ==
    \A i \in Indices :
        (pc \in {"enum", "collect", "merge", "cleanup"}
           /\ future[i].st \in {"done", "collected"} /\ future[i].ok
           /\ net[SegmentUrl(i)] = "nolen") =>
            /\ i \in transferred
            /\ files[i] = File(Body(SegmentUrl(i)))

\* the strictly ascending sequence of the elements of S
Ascending(S) ==
    CHOOSE s \in [1..Cardinality(S) -> S] :
        \A k \in 1..(Cardinality(S) - 1) : s[k] < s[k + 1]

\* C9: a failed fetch gives a Failed outcome for its own index only: every
\* segment the server can deliver is Completed, every index has exactly one
\* outcome, the run goes on to the merge step, and the merge step receives
\* exactly the Completed indices in ascending order.
C9_FailureIsolation ==
    /\ \A i \in Indices :
          Failed(i) => /\ net[SegmentUrl(i)] = "fail"
                       /\ i \notin Range(downloaded_segments)
    /\ Returned => \A i \in RunIndices : Completed(i) # Failed(i)
    /\ pc \in {"cleanup", "done"} =>
          merged = Ascending({i \in RunIndices : ~Failed(i)})
    /\ (\E i \in Indices : Failed(i)) /\ pc # "done" => ENABLED Next

\* three segments, segment 1 failed, the merge step received [0, 2]
C9_Witness ==
    /\ pc = "done"
    /\ Failed(1)
    /\ merged = <<0, 2>>
    /\ \A i \in Indices \ {1} : Completed(i)

LedgerEntry(doc, i) ==
    IF Str(i) \in DOMAIN doc THEN {doc[Str(i)]} ELSE {}

\* C10: after the fetch of segment i failed with a RequestException no file
\* of i is on disk; the step in which it fails changes no other file and no
\* ledger; from then on the run adds or changes no record of i in the ledger,
\* in memory or on disk; and the run is not stopped by it.
C10_FailedFetchCleansUp ==
    /\ [](\A i \in Indices :
            Failed(i) => /\ ~files[i].exists
                         /\ pc # "done" => ENABLED Next)
    /\ [][\A i \in Indices :
            /\ (~Failed(i) /\ Failed(i)') =>
                  /\ \A j \in Indices \ {i} : files'[j] = files[j]
                  /\ ledger_file' = ledger_file
                  /\ segment_info' = segment_info
            /\ (Failed(i) /\ Failed(i)') =>
                  /\ LedgerEntry(segment_info', i) = LedgerEntry(segment_info, i)
                  /\ LedgerEntry(ledger_file'.doc, i)
                        \subseteq LedgerEntry(ledger_file.doc, i)]_vars

\* a fetch cut while its body was streamed into the opened file, next to a
\* segment that keeps its file and its ledger record
C10_Witness ==
    /\ pc = "merge"
    /\ \E i \in aborted :
          /\ Failed(i)
          /\ ~files[i].exists
          /\ Str(i) \notin DOMAIN ledger_file.doc
          /\ \E j \in Indices \ {i} :
                files[j].exists /\ Str(j) \in DOMAIN ledger_file.doc

\* ------------------------------------------- the ledger and the manifest
\* C11: when segment_info.json exists but cannot be read, the run treats it
\* as an empty ledger: it is not aborted, it dispatches a fetch for every
\* segment, and it has written a readable ledger when the scheduler returns.
C11_CorruptLedgerIsEmpty ==
    (run = "second" /\ tampered.kind = "corrupt") =>
        /\ pc \notin {"unwind", "aborted"}
        /\ pc \in {"collect", "merge", "cleanup", "done"} =>
              \A i \in RunIndices : submits[i] = 1
        /\ Returned => (ledger_file.exists /\ ~ledger_file.corrupt)

\* C12: when the manifest file is missing the pipeline aborts: no fetch is
\* dispatched, no request is sent, no segment file and no ledger is written
\* and the merge step receives nothing.
C12_MissingManifestAborts ==
    ~m3u8_file.exists =>
        /\ pc \in {"start", "aborted"}
        /\ \A i \in Indices :
              submits[i] = 0 /\ requests[i] = 0 /\ files[i] = NoFile
        /\ queue = <<>> /\ running = {}
        /\ ledger_file = NoLedger
        /\ merged = <<>> /\ result = <<>>

\* the pipeline has ended on the missing manifest
C12_Witness == pc = "aborted" /\ ~m3u8_file.exists

\* C13: a segment that a run reports as Completed without having transferred
\* its body in that run has a ledger entry whose hash equals the recomputed
\* hash of its file.  (Looked at before the completion loop records the
\* result, while the ledger in memory is still the loaded one for it.)
C13_ReusedFilesVerified ==
    \A i \in Indices :
        (/\ pc \in {"enum", "collect"}
         /\ i \in skipped \/ (future[i].st = "done" /\ future[i].ok)
         /\ i \notin transferred) =>
            /\ files[i].exists
            /\ Str(i) \in DOMAIN segment_info
            /\ segment_info[Str(i)].md5 = MD5From(1, files[i].data)

\* C14: the step that ends the pipeline removes nothing from the run
\* directory when the caller gave no retention option on the command line
\* (retaining is the default): segment files and ledger are left as they are.
C14_RetainedByDefault ==
    [][(pc \in {"cleanup", "unwind"} /\ pc' \in {"done", "aborted"}
          /\ ~argv_keep) =>
            (files' = files /\ ledger_file' = ledger_file)]_vars

\* ------------------------------------------------------- the manifest parser
Blank(line) == \A k \in DOMAIN line : line[k] \in Whitespace

\* the line without the whitespace around it
Trimmed(line) ==
    LET ink == {k \in DOMAIN line : line[k] \notin Whitespace}
        first == CHOOSE k \in ink : \A j \in ink : k <= j
        last == CHOOSE k \in ink : \A j \in ink : j <= k
    IN IF ink = {} THEN <<>> ELSE SubSeq(line, first, last)

Comment(line) == ~Blank(line) /\ Trimmed(line)[1] = "#"
DataLine(line) == ~Blank(line) /\ ~Comment(line)
EndsWith(s, suffix) ==
    /\ Len(s) >= Len(suffix)
    /\ SubSeq(s, Len(s) - Len(suffix) + 1, Len(s)) = suffix

\* C15: extract_segments returns one locator for every line that is neither
\* blank nor a comment (a line whose first character after leading
\* whitespace is '#'), in line order: the locator at 0-based position k is
\* the one of the k-th such line, its text verbatim for an http URL and
\* joined to the manifest's directory otherwise.
C15_OneLocatorPerDataLine ==
    locators.done =>
        LET data == SelectSeq(m3u8_text.lines, DataLine)
        IN /\ Len(locators.value) = Len(data)
           /\ \A k \in 1..Len(data) :
                 /\ EndsWith(locators.value[k], Trimmed(data[k]))
                 /\ StartsWith(Trimmed(data[k]), <<"h", "t", "t", "p">>) =>
                       locators.value[k] = Trimmed(data[k])

\* three relative lines and one comment line give three locators, resolved
\* against the manifest's directory
C15_Witness ==
    /\ locators.done
    /\ m3u8_text.dir = <<"d">>
    /\ m3u8_text.lines =
          <<(<<"#", "E", "\n">>), (<<"s", "\n">>), (<<"s", "\n">>), (<<"s", "\n">>)>>
    /\ locators.value = <<(<<"d", "/", "s">>), (<<"d", "/", "s">>), (<<"d", "/", "s">>)>>

\* ------------------------------------------------------------ the ledger
RunKeys == {Str(i) : i \in RunIndices}

\* C16: during a scheduler run every key of the ledger in memory, and every
\* key of the document the run has persisted, is the index of a segment of
\* the manifest being processed.
C16_LedgerKeysInRange ==
    /\ pc \in {"enum", "collect", "merge"} => DOMAIN segment_info \subseteq RunKeys
    /\ pc \in {"merge", "cleanup"} => DOMAIN ledger_file.doc \subseteq RunKeys

\* a step of a pool worker (Request or Stream): the main thread stays where
\* it is while a call is taken from the queue or leaves the running set
WorkerStep == pc' = pc /\ (requests' # requests \/ running' # running)

\* C17: the ledger mapping and the list of completed segments are touched by
\* one thread only: no step of a pool worker changes either of them, the main
\* thread's completion loop adds exactly one ledger record and one list entry
\* for each successful fetch and leaves every other record alone, and when
\* the scheduler returns no such update is lost or duplicated.
C17_SingleWriterLedger ==
    /\ [][/\ WorkerStep =>
               (segment_info' = segment_info
                /\ downloaded_segments' = downloaded_segments)
          /\ \A i \in Indices :
               (future[i].st = "done" /\ future'[i].st = "collected"
                  /\ future[i].ok) =>
                   /\ downloaded_segments' = Append(downloaded_segments, i)
                   /\ DOMAIN segment_info' = DOMAIN segment_info \cup {Str(i)}
                   /\ segment_info'[Str(i)] =
                         [url |-> SegmentUrl(i), md5 |-> future[i].md5]
                   /\ \A k \in DOMAIN segment_info \ {Str(i)} :
                         segment_info'[k] = segment_info[k]]_vars
    /\ [](Returned =>
            \A i \in Indices :
                FetchSucceeded(i) =>
                    /\ Occurrences(downloaded_segments, i) = 1
                    /\ Str(i) \in DOMAIN segment_info
                    /\ segment_info[Str(i)].md5 = future[i].md5)

\* two workers, two fetches that succeeded and were recorded out of index
\* order
C17_Witness ==
    /\ pc = "merge"
    /\ num_threads >= 2
    /\ \E i, j \in Indices :
          /\ i < j
          /\ FetchSucceeded(i) /\ FetchSucceeded(j)
          /\ \E a, b \in DOMAIN downloaded_segments :
                a < b /\ downloaded_segments[a] = j /\ downloaded_segments[b] = i
          /\ {Str(i), Str(j)} \subseteq DOMAIN segment_info

SucceededKeys == {Str(i) : i \in {j \in Indices : FetchSucceeded(j)}}

\* C18: in one scheduler run the ledger is loaded from disk in the step that
\* starts the run, before any fetch is dispatched; the document on disk is
\* changed by no step of the run but the one in which the scheduler returns,
\* which is taken with no fetch queued, running or uncollected and before
\* the merge step has received anything; the document written holds every
\* record that was loaded, replaced by the new record where a fetch
\* succeeded, plus the records of all fetches that succeeded in this run.
C18_LedgerLoadedAndWrittenOnce ==
    /\ [][/\ pc' = "enum" /\ pc # "enum" =>
               /\ segment_info' = IF ledger_file.exists THEN ledger_file.doc
                                  ELSE EmptyLedger
               /\ \A i \in Indices : submits'[i] = 0 /\ requests'[i] = 0
          /\ (pc \in {"enum", "collect", "merge"}
                /\ ~(pc = "collect" /\ pc' = "merge")) =>
               ledger_file' = ledger_file
          /\ (pc = "collect" /\ pc' = "merge") =>
               /\ queue = <<>> /\ running = {}
               /\ \A i \in Indices : future[i].st \in {"none", "collected"}
               /\ merged = <<>> /\ merged' = <<>>
               /\ ledger_file'.exists /\ ~ledger_file'.corrupt
               /\ DOMAIN ledger_file'.doc =
                     DOMAIN ledger_file.doc \cup SucceededKeys
               /\ \A k \in DOMAIN ledger_file.doc \ SucceededKeys :
                     ledger_file'.doc[k] = ledger_file.doc[k]
               /\ \A i \in Indices :
                     FetchSucceeded(i) =>
                        ledger_file'.doc[Str(i)] =
                           [url |-> SegmentUrl(i), md5 |-> future[i].md5]]_vars
    /\ [](/\ pc \in {"enum", "collect"} => merged = <<>>
          /\ pc \in {"merge", "cleanup"} =>
                (ledger_file.exists /\ ledger_file.doc = segment_info))

\* a second run that wrote a ledger holding a loaded record next to the
\* record of a fetch of this run
C18_Witness ==
    /\ run = "second"
    /\ pc = "merge"
    /\ \E i \in skipped : Str(i) \in DOMAIN ledger_file.doc
    /\ \E j \in transferred :
          /\ FetchSucceeded(j)
          /\ ledger_file.doc[Str(j)].md5 = future[j].md5

\* the scheduler has returned: every index of the run has one outcome, the
\* progress bar is full, the ledger is on disk and the sorted list is back
SchedulerDone ==
    /\ pc = "merge"
    /\ \A i \in RunIndices : Completed(i) # Failed(i)
    /\ queue = <<>> /\ running = {}
    /\ progress = total_segments
    /\ ledger_file.exists /\ ledger_file.doc = segment_info
    /\ Range(result) = CompletedSet
    /\ \A k \in 1..(Len(result) - 1) : result[k] < result[k + 1]

\* C19: under the scheduling assumptions of FairSpec a scheduler run that
\* has loaded its ledger reaches the state where every segment index has an
\* outcome, the progress count equals segment_count, the ledger is
\* persisted and the sorted result is returned.
C19_SchedulerTerminates == (pc = "enum") ~> SchedulerDone

\* a run that has ended with a failed and a completed segment and a full
\* progress count
C19_Witness ==
    /\ SchedulerDone
    /\ progress = NumSegments
    /\ \E i \in RunIndices : Failed(i) /\ i \in aborted
    /\ \E i \in RunIndices : FetchSucceeded(i)

\* C20: an index is skipped as already done only if the URL recorded in its
\* ledger entry is the URL the current manifest lists at that index, and no
\* segment reported as Completed has a file that holds the body of another
\* URL than the one of its index.
C20_SkipOnlySameUrl ==
    pc \in {"enum", "collect", "merge"} =>
        \A i \in RunIndices :
            /\ i \in skipped => segment_info[Str(i)].url = SegmentUrl(i)
            /\ Completed(i) =>
                  \A u \in Urls :
                      files[i] = File(Body(u)) => u = SegmentUrl(i)

====
